---- MODULE Spec2Model ----
(***************************************************************************)
(* PageRank estimation over a graph of URLs: the three script variants     *)
(* page_rank.py (plain dict), page_rank_optimisation.py (defaultdict) and  *)
(* page_rank_2.py (networkx.DiGraph), from reading the edge file to the    *)
(* score mapping the selected estimator returns.                           *)
(*                                                                         *)
(* A Python dict is modelled as a record [keys, val]: keys is the          *)
(* insertion order, val the mapping.  A node identifier is the token       *)
(* str.split() produced: a non-empty sequence of characters.  Floats are   *)
(* modelled as exact rationals <<numerator, denominator>> in lowest terms. *)
(***************************************************************************)
EXTENDS Integers, Sequences, FiniteSets, TLC

VARIABLES variant, args, datafile, line_no, loaded, graph, stats, pc, error,
          hit_count, current_node, node_prob, x, prog, ranking, top, output

vars == <<variant, args, datafile, line_no, loaded, graph, stats, pc, error,
          hit_count, current_node, node_prob, x, prog, ranking, top, output>>

(* ------------------------------ bounds --------------------------------- *)
MaxLines == 4
MaxCount == 2
MaxNegCount == 1
MaxNumber == 2
MaxScore == 2

(* -------------------------- program constants -------------------------- *)
DefaultRepeats == 1000000
DefaultSteps == 100
ShowEvery == 10000

Variants == {"page_rank", "page_rank_optimisation", "page_rank_2"}
Methods == {"stochastic", "distribution"}
UsesProgress == {"page_rank", "page_rank_optimisation"}

(* ------------------------------ input ---------------------------------- *)
Whitespace == {" ", "\t", "\n"}
Letters == {"a", "b"}

\* lines 'node target\n' as the file iterator yields them
WellFormedLines == {<<s, " ", t, "\n">> : s \in Letters, t \in Letters}
\* a blank line, a line of one token, a line of three tokens
MalformedLines == {<<"\n">>, <<"a", "b", "\n">>, <<"a", " ", "b", " ", "a", "\n">>}
Lines == WellFormedLines \cup MalformedLines
Files == UNION {[1..n -> Lines] : n \in 0..MaxLines}
Counts == (0 - MaxNegCount)..MaxCount
\* --number: how many top results to show
Numbers == 0..MaxNumber

(* ------------------------------ dicts ---------------------------------- *)
EmptyDict == [keys |-> <<>>, val |-> [k \in {} |-> 0]]
Has(d, k) == k \in DOMAIN d.val
Put(d, k, v) ==
    [keys |-> IF Has(d, k) THEN d.keys ELSE Append(d.keys, k),
     val  |-> [n \in (DOMAIN d.val) \cup {k} |-> IF n = k THEN v ELSE d.val[n]]]
DictLen(d) == Len(d.keys)
\* {k: v for k in d}: same keys in the same order, every value v
FromKeys(d, v) == [keys |-> d.keys, val |-> [n \in DOMAIN d.val |-> v]]

(* --------------------------- str.split() ------------------------------- *)
RECURSIVE SplitFrom(_, _, _, _)
SplitFrom(line, k, cur, acc) ==
    IF k > Len(line)
    THEN IF cur = <<>> THEN acc ELSE Append(acc, cur)
    ELSE IF line[k] \in Whitespace
         THEN SplitFrom(line, k + 1, <<>>, IF cur = <<>> THEN acc ELSE Append(acc, cur))
         ELSE SplitFrom(line, k + 1, Append(cur, line[k]), acc)

split(line) == SplitFrom(line, 1, <<>>, <<>>)

(* ----------------------------- load_graph ------------------------------ *)
\* page_rank.py: graph[node].append(target) or graph[node] = [target];
\* page_rank_optimisation.py: defaultdict(list), graph[node].append(target)
dict_add(g, node, target) ==
    IF Has(g, node) THEN Put(g, node, Append(g.val[node], target))
    ELSE Put(g, node, <<target>>)

InSeq(e, s) == \E k \in 1..Len(s) : s[k] = e

\* networkx.DiGraph.add_edge: both ends become nodes, a repeated edge is
\* kept once in the successor map
add_edge(g, u, v) ==
    LET g1 == IF Has(g, u) THEN g ELSE Put(g, u, <<>>)
        g2 == IF Has(g1, v) THEN g1 ELSE Put(g1, v, <<>>)
    IN IF InSeq(v, g2.val[u]) THEN g2 ELSE Put(g2, u, Append(g2.val[u], v))

AddEdge(g, node, target) ==
    IF variant = "page_rank_2" THEN add_edge(g, node, target)
    ELSE dict_add(g, node, target)

Init ==
    /\ variant \in Variants
    /\ datafile \in Files
    /\ \E m \in Methods, n \in Counts, number \in Numbers :
          args = [method  |-> m,
                  repeats |-> IF m = "stochastic" THEN n ELSE DefaultRepeats,
                  steps   |-> IF m = "distribution" THEN n ELSE DefaultSteps,
                  number  |-> number]
    /\ line_no = 0
    /\ loaded = FALSE
    /\ graph = EmptyDict
    /\ stats = <<>>
    /\ pc = "load"
    /\ error = "none"
    /\ hit_count = EmptyDict
    /\ current_node = <<>>
    /\ node_prob = EmptyDict
    /\ x = 0
    /\ prog = [counter |-> 0, total |-> 0]
    /\ ranking = EmptyDict
    /\ top = <<>>
    /\ output = <<>>

\* a loader that skips a line it cannot unpack and reads on
LoadLineSkipping ==
    /\ pc = "load"
    /\ line_no < Len(datafile)
    /\ LET tokens == split(datafile[line_no + 1])
       IN graph' = IF Len(tokens) # 2 THEN graph
                   ELSE AddEdge(graph, tokens[1], tokens[2])
    /\ line_no' = line_no + 1
    /\ UNCHANGED <<top, output, variant, args, datafile, loaded, stats, pc, error, hit_count,
                   current_node, node_prob, x, prog, ranking>>

\* one iteration of 'for line in args.datafile': node, target = line.split()
LoadLine ==
    /\ pc = "load"
    /\ line_no < Len(datafile)
    /\ LET tokens == split(datafile[line_no + 1])
       IN IF Len(tokens) # 2
          THEN /\ error' = "ValueError"
               /\ pc' = "failed"
               /\ UNCHANGED <<graph, line_no>>
          ELSE /\ graph' = AddEdge(graph, tokens[1], tokens[2])
               /\ line_no' = line_no + 1
               /\ UNCHANGED <<error, pc>>
    /\ UNCHANGED <<top, output, variant, args, datafile, loaded, stats, hit_count,
                   current_node, node_prob, x, prog, ranking>>

\* return graph; graph = load_graph(args)
LoadReturn ==
    /\ pc = "load"
    /\ line_no = Len(datafile)
    /\ loaded' = TRUE
    /\ pc' = "stats"
    /\ UNCHANGED <<top, output, variant, args, datafile, line_no, graph, stats, error,
                   hit_count, current_node, node_prob, x, prog, ranking>>

RECURSIVE SumLen(_, _)
SumLen(g, k) == IF k = 0 THEN 0 ELSE SumLen(g, k - 1) + Len(g.val[g.keys[k]])

\* len(graph) / number_of_nodes(), sum of len(child) / number_of_edges()
node_count(g) == DictLen(g)
edge_count(g) == SumLen(g, DictLen(g))

print_stats ==
    /\ pc = "stats"
    /\ stats' = <<node_count(graph), edge_count(graph)>>
    /\ pc' = "algorithm"
    /\ UNCHANGED <<top, output, variant, args, datafile, line_no, loaded, graph, error,
                   hit_count, current_node, node_prob, x, prog, ranking>>

(* --------------------------- exact arithmetic -------------------------- *)
RECURSIVE GCD(_, _)
GCD(m, n) == IF n = 0 THEN m ELSE GCD(n, m % n)

Norm(r) == IF r[1] = 0 THEN <<0, 1>>
           ELSE LET g == GCD(r[1], r[2]) IN <<r[1] \div g, r[2] \div g>>
Zero == <<0, 1>>
One == <<1, 1>>
RatAdd(r, s) == Norm(<<r[1] * s[2] + s[1] * r[2], r[2] * s[2]>>)
\* r / n for an integer n > 0
RatDiv(r, n) == Norm(<<r[1], r[2] * n>>)
RatLeq(r, s) == r[1] * s[2] <= s[1] * r[2]

(* ------------------------------ helpers -------------------------------- *)
\* a loop that also runs for x = n
InRangeInclusive(k, n) == k <= n

\* 'for x in range(n)': the body runs while x < n
InRange(k, n) == k < n

\* the estimator main selected: args.repeats for stochastic, args.steps for
\* distribution
Count == IF args.method = "stochastic" THEN args.repeats ELSE args.steps

\* d[k] += 1 on a defaultdict(int): a missing key starts at 0
Incr(d, k) == Put(d, k, (IF Has(d, k) THEN d.val[k] ELSE 0) + 1)

\* hit_count = {node: 0 for node in graph} (page_rank.py, page_rank_2.py)
\* or defaultdict(int) (page_rank_optimisation.py)
InitialHits(g) ==
    IF variant = "page_rank_optimisation" THEN EmptyDict ELSE FromKeys(g, 0)

\* nodes = list(graph.keys()) / list(graph.nodes())
nodes(g) == g.keys

\* 'current_node not in graph or len(graph[current_node]) == 0'
Restarts(g, node) == ~Has(g, node) \/ Len(g.val[node]) = 0

(* ------------------------- stochastic_page_rank ------------------------ *)
\* nodes, hit_count, the random start node and the progress bar
stochastic_start ==
    /\ pc = "algorithm"
    /\ args.method = "stochastic"
    /\ IF Len(nodes(graph)) = 0
       THEN \* random.choice([]) raises IndexError
            /\ error' = "IndexError"
            /\ pc' = "failed"
            /\ hit_count' = InitialHits(graph)
            /\ UNCHANGED <<current_node, prog>>
       ELSE /\ \E k \in 1..Len(nodes(graph)) :
                  /\ current_node' = nodes(graph)[k]
                  /\ hit_count' = Incr(InitialHits(graph), nodes(graph)[k])
            /\ prog' = IF variant \in UsesProgress
                       THEN [counter |-> 0, total |-> args.repeats]
                       ELSE prog
            /\ pc' = "walk"
            /\ UNCHANGED error
    /\ x' = 0
    /\ UNCHANGED <<top, output, variant, args, datafile, line_no, loaded, graph, stats,
                   node_prob, ranking>>

\* one iteration of 'for x in range(args.repeats)'
stochastic_step ==
    /\ pc = "walk"
    /\ InRange(x, args.repeats)
    /\ LET choices == IF Restarts(graph, current_node) THEN nodes(graph)
                      ELSE graph.val[current_node]
       IN \E k \in 1..Len(choices) :
            LET nxt == choices[k] IN
            /\ current_node' = nxt
            /\ IF variant # "page_rank_optimisation" /\ ~Has(hit_count, nxt)
               THEN \* hit_count[current_node] += 1 on a plain dict
                    /\ error' = "KeyError"
                    /\ pc' = "failed"
                    /\ UNCHANGED <<hit_count, x, prog>>
               ELSE /\ hit_count' = Incr(hit_count, nxt)
                    /\ prog' = IF variant \in UsesProgress
                               THEN [prog EXCEPT !.counter = @ + 1]
                               ELSE prog
                    /\ IF variant \in UsesProgress /\ x % ShowEvery = 0
                          /\ prog.total = 0
                       THEN \* prog.show(): 100 * counter / total
                            /\ error' = "ZeroDivisionError"
                            /\ pc' = "failed"
                            /\ UNCHANGED x
                       ELSE /\ x' = x + 1
                            /\ UNCHANGED <<error, pc>>
    /\ UNCHANGED <<top, output, variant, args, datafile, line_no, loaded, graph, stats,
                   node_prob, ranking>>

\* prog.finish(); return hit_count; ranking = algorithm(graph, args)
stochastic_return ==
    /\ pc = "walk"
    /\ ~InRange(x, args.repeats)
    /\ ranking' = hit_count
    /\ pc' = "done"
    /\ UNCHANGED <<top, output, variant, args, datafile, line_no, loaded, graph, stats,
                   error, hit_count, current_node, node_prob, x, prog>>

(* ------------------------ distribution_page_rank ----------------------- *)
\* 'for target in graph[node]: next_prob[target] += p'
RECURSIVE Spread(_, _, _, _)
Spread(acc, targets, j, p) ==
    IF j > Len(targets) \/ acc.err # "none" THEN acc
    ELSE LET t == targets[j] IN
         IF ~Has(acc.next, t)
         THEN [err |-> "KeyError", next |-> acc.next]
         ELSE Spread([err |-> "none",
                      next |-> Put(acc.next, t, RatAdd(acc.next.val[t], p))],
                     targets, j + 1, p)

\* 'for node in graph': page_rank.py and page_rank_optimisation.py guard the
\* division with 'if len(graph[node]) > 0', page_rank_2.py divides always
RECURSIVE Sweep(_, _, _, _, _)
Sweep(g, prob, acc, k, guarded) ==
    IF k > Len(g.keys) \/ acc.err # "none" THEN acc
    ELSE LET node == g.keys[k]
             deg == Len(g.val[node])
         IN IF deg > 0
            THEN Sweep(g, prob,
                       Spread(acc, g.val[node], 1, RatDiv(prob.val[node], deg)),
                       k + 1, guarded)
            ELSE IF guarded THEN Sweep(g, prob, acc, k + 1, guarded)
                 ELSE [err |-> "ZeroDivisionError", next |-> acc.next]

NextProb(g, prob) ==
    Sweep(g, prob, [err |-> "none", next |-> FromKeys(g, Zero)], 1,
          variant # "page_rank_2")

\* node_prob = {node: 1 / nodes for node in graph}
Uniform(g) == FromKeys(g, RatDiv(One, node_count(g)))

distribution_start ==
    /\ pc = "algorithm"
    /\ args.method = "distribution"
    /\ node_prob' = Uniform(graph)
    /\ x' = 0
    /\ pc' = "iterate"
    /\ UNCHANGED <<top, output, variant, args, datafile, line_no, loaded, graph, stats,
                   error, hit_count, current_node, prog, ranking>>

\* one iteration of 'for x in range(args.steps)'
distribution_step ==
    /\ pc = "iterate"
    /\ InRange(x, args.steps)
    /\ LET r == NextProb(graph, node_prob)
       IN IF r.err # "none"
          THEN /\ error' = r.err
               /\ pc' = "failed"
               /\ UNCHANGED <<node_prob, x>>
          ELSE /\ node_prob' = r.next
               /\ x' = x + 1
               /\ UNCHANGED <<error, pc>>
    /\ UNCHANGED <<top, output, variant, args, datafile, line_no, loaded, graph, stats,
                   hit_count, current_node, prog, ranking>>

\* return node_prob; ranking = algorithm(graph, args)
distribution_return ==
    /\ pc = "iterate"
    /\ ~InRange(x, args.steps)
    /\ ranking' = node_prob
    /\ pc' = "done"
    /\ UNCHANGED <<top, output, variant, args, datafile, line_no, loaded, graph, stats,
                   error, hit_count, current_node, node_prob, x, prog>>

(* --------------------------- top-N reporting --------------------------- *)
\* ranking.items(): the (node, score) pairs in the mapping's iteration order
items(d) == [k \in 1..Len(d.keys) |-> <<d.keys[k], d.val[d.keys[k]]>>]

\* score comparison of the sort key item[1]: visit counts are integers,
\* probabilities are fractions
ScoreLess(a, b) ==
    IF args.method = "stochastic" THEN a < b
    ELSE a[1] * b[2] < b[1] * a[2]

\* a descending sort that puts an item in front of the equal items before it,
\* as sorting ascending and reversing the list does
InsertBeforeTies(sorted, item) ==
    LET before == {k \in 1..Len(sorted) : ScoreLess(item[2], sorted[k][2])}
        n == Cardinality(before)
    IN SubSeq(sorted, 1, n) \o <<item>> \o SubSeq(sorted, n + 1, Len(sorted))

\* sorted(..., reverse=True) is stable: an item goes behind every item whose
\* score is not lower, so equal scores keep their input order
Insert(sorted, item) ==
    LET before == {k \in 1..Len(sorted) : ~ScoreLess(sorted[k][2], item[2])}
        n == Cardinality(before)
    IN SubSeq(sorted, 1, n) \o <<item>> \o SubSeq(sorted, n + 1, Len(sorted))

RECURSIVE SortedFrom(_, _, _)
SortedFrom(its, k, acc) ==
    IF k > Len(its) THEN acc ELSE SortedFrom(its, k + 1, Insert(acc, its[k]))

\* sorted(ranking.items(), key=lambda item: item[1], reverse=True)
sorted(its) == SortedFrom(its, 1, <<>>)

\* seq[:n]: the first n items, or all but the last -n for a negative n
Slice(seq, n) ==
    IF n >= 0 THEN SubSeq(seq, 1, IF n < Len(seq) THEN n ELSE Len(seq))
    ELSE SubSeq(seq, 1, Len(seq) + n)

\* top = sorted(...); print one line per entry of top[:args.number]
report ==
    /\ pc = "done"
    /\ top' = sorted(items(ranking))
    /\ output' = Slice(top', args.number)
    /\ pc' = "reported"
    /\ UNCHANGED <<variant, args, datafile, line_no, loaded, graph, stats,
                   error, hit_count, current_node, node_prob, x, prog, ranking>>

Next ==
    \/ LoadLine
    \/ LoadReturn
    \/ print_stats
    \/ stochastic_start
    \/ stochastic_step
    \/ stochastic_return
    \/ distribution_start
    \/ distribution_step
    \/ distribution_return
    \/ report

Spec == Init /\ [][Next]_vars

(* ------------------- the reporter on any score mapping ----------------- *)
ReportNodes == {<<"a">>, <<"b">>, <<"c">>}
Scores(m) == IF m = "stochastic" THEN 0..MaxScore
             ELSE {<<0, 1>>, <<1, 3>>, <<1, 2>>, <<1, 1>>}
\* the key orders a mapping over some of the nodes can have
KeyOrders ==
    {ks \in UNION {[1..n -> ReportNodes] : n \in 0..Cardinality(ReportNodes)} :
        \A i, j \in 1..Len(ks) : i # j => ks[i] # ks[j]}

\* main after 'ranking = algorithm(graph, args)', for any score mapping
InitReport ==
    /\ variant \in Variants
    /\ datafile = <<>>
    /\ \E m \in Methods, number \in Numbers :
          /\ args = [method  |-> m,
                     repeats |-> DefaultRepeats,
                     steps   |-> DefaultSteps,
                     number  |-> number]
          /\ \E ks \in KeyOrders :
                \E f \in [{ks[k] : k \in 1..Len(ks)} -> Scores(m)] :
                    ranking = [keys |-> ks, val |-> f]
    /\ line_no = 0
    /\ loaded = TRUE
    /\ graph = EmptyDict
    /\ stats = <<0, 0>>
    /\ pc = "done"
    /\ error = "none"
    /\ hit_count = EmptyDict
    /\ current_node = <<>>
    /\ node_prob = EmptyDict
    /\ x = 0
    /\ prog = [counter |-> 0, total |-> 0]
    /\ top = <<>>
    /\ output = <<>>

NextReport == report

SpecReport == InitReport /\ [][NextReport]_vars

(* ===================== what the claims speak about ===================== *)
Range(s) == {s[k] : k \in 1..Len(s)}
Started == pc \in {"walk", "iterate", "done", "failed"}
Finished == pc \in {"done", "failed"}

\* the edge list of a well-formed file, read off the lines themselves
EdgeLines == {k \in 1..Len(datafile) : datafile[k] \in WellFormedLines}
Source(k) == <<datafile[k][1]>>
Target(k) == <<datafile[k][3]>>
NodeSet == {Source(k) : k \in EdgeLines} \cup {Target(k) : k \in EdgeLines}
OutDegree(n) == Cardinality({k \in EdgeLines : Source(k) = n})
PureTargets == {n \in NodeSet : OutDegree(n) = 0}

RECURSIVE RatSum(_, _)
RatSum(f, S) == IF S = {} THEN Zero
                ELSE LET n == CHOOSE m \in S : TRUE
                     IN RatAdd(f[n], RatSum(f, S \ {n}))
RECURSIVE IntSum(_, _)
IntSum(f, S) == IF S = {} THEN 0
                ELSE LET n == CHOOSE m \in S : TRUE
                     IN f[n] + IntSum(f, S \ {n})
Mass(d) == RatSum(d.val, DOMAIN d.val)
Total(d) == IntSum(d.val, DOMAIN d.val)

\* the reference step: every edge (s, t) carries current[s] / out_degree(s)
RefStep(cur) ==
    [t \in NodeSet |->
        RatSum([k \in EdgeLines |-> RatDiv(cur[Source(k)], OutDegree(Source(k)))],
               {k \in EdgeLines : Target(k) = t})]
RECURSIVE RefIter(_)
RefIter(k) == IF k = 0 THEN [n \in NodeSet |-> RatDiv(One, Cardinality(NodeSet))]
              ELSE RefStep(RefIter(k - 1))

MalformedAt == {k \in 1..Len(datafile) : datafile[k] \in MalformedLines}
FirstMalformed == CHOOSE k \in MalformedAt : \A j \in MalformedAt : k <= j

(* ------------------------------- C1 ------------------------------------ *)
\* C1: for every (here: non-empty) graph load_graph builds and every step
\* count >= 0 the
\* stochastic estimator returns normally, the running sum of the visit counts
\* after x iterations is x + 1 and the returned counts sum to step_count + 1.
C1_TotalVisits ==
    (loaded /\ NodeSet # {} /\ args.method = "stochastic" /\ args.repeats >= 0) =>
        /\ pc = "walk" => Total(hit_count) = x + 1
        /\ Finished => /\ pc = "done"
                       /\ error = "none"
                       /\ Total(ranking) = args.repeats + 1

(* ------------------------------- C2 ------------------------------------ *)
\* C2: distribution_page_rank(graph, k) is k applications of the reference
\* step (edges with multiplicity, out-degree counting duplicates) to the
\* uniform distribution 1/node_count; k = 0 returns the uniform distribution.
C2_ReferenceIteration ==
    (loaded /\ args.method = "distribution" /\ args.steps >= 0 /\ Finished) =>
        /\ pc = "done"
        /\ ranking.val = RefIter(args.steps)

(* ------------------------------- C3 ------------------------------------ *)
\* C3: after every iteration the probabilities of the distribution estimator
\* sum to at most 1, and to exactly 1 when every node of the graph has an
\* outgoing edge.
C3_MassAtMostOne ==
    (loaded /\ args.method = "distribution" /\ pc \in {"iterate", "done"}
        /\ x >= 1) =>
        /\ RatLeq(Mass(node_prob), One)
        /\ PureTargets = {} => Mass(node_prob) = One

(* ------------------------------- C4 ------------------------------------ *)
\* C4: on a graph with a node that is only ever an edge target, every
\* iteration of the distribution estimator completes without error; that node
\* has an entry in the probability mapping and holds the mass its incoming
\* edges carried, and it sends nothing on.
C4_DanglingTarget ==
    (loaded /\ args.method = "distribution" /\ args.steps >= 1
        /\ PureTargets # {} /\ Started) =>
        /\ error = "none"
        /\ \A t \in PureTargets :
              /\ Has(node_prob, t)
              /\ node_prob.val[t] = RefIter(x)[t]

(* ------------------------------- C5 ------------------------------------ *)
\* C5: in the stochastic estimator the start node and every restart are drawn
\* from the full node set, the union of all sources and targets, and a step
\* from a node without outgoing edges completes.
C5_RestartFromFullNodeSet ==
    (loaded /\ args.method = "stochastic" /\ args.repeats >= 1 /\ Started) =>
        /\ error # "KeyError"
        /\ NodeSet # {} => Range(nodes(graph)) = NodeSet

(* ------------------------------- C6 ------------------------------------ *)
\* C6: load_graph fails (ValueError from unpacking line.split(), the code's
\* malformed-input error) on the first line that is not exactly two
\* whitespace-separated tokens; no graph is returned, no statistics are
\* printed and no estimator runs.
C6_MalformedInputRejected ==
    MalformedAt # {} =>
        /\ pc \in {"load", "failed"}
        /\ line_no < FirstMalformed
        /\ pc = "failed" => error = "ValueError" /\ line_no = FirstMalformed - 1
        /\ ~loaded
        /\ stats = <<>>
        /\ hit_count = EmptyDict /\ node_prob = EmptyDict /\ ranking = EmptyDict

\* load_graph has read an edge and then failed on a malformed line
C6_Witness ==
    /\ pc = "failed"
    /\ error = "ValueError"
    /\ line_no >= 1
    /\ DictLen(graph) >= 1

(* ------------------------------- C7 ------------------------------------ *)
\* C7: either estimator invoked on a graph with zero nodes fails with
\* EmptyGraphError before computing anything; it returns no mapping and
\* raises no generic indexing or division fault.
C7_EmptyGraphError ==
    (loaded /\ NodeSet = {} /\ Count >= 1 /\ Started) =>
        /\ pc = "failed"
        /\ error = "EmptyGraphError"

(* ------------------------------- C8 ------------------------------------ *)
\* C8 as stated: a zero or negative step/repeat count is rejected with
\* InvalidParameterError before computation starts, no mapping is returned.
C8_NonPositiveRejected ==
    (loaded /\ Count <= 0 /\ Started) =>
        /\ pc = "failed"
        /\ error = "InvalidParameterError"
        /\ ranking = EmptyDict

\* the mapping an estimator holds before its first iteration
IsInitialMapping(d) ==
    IF args.method = "stochastic"
    THEN /\ DOMAIN d.val \subseteq Range(nodes(graph))
         /\ \E n \in DOMAIN d.val :
               /\ d.val[n] = 1
               /\ \A m \in DOMAIN d.val \ {n} : d.val[m] = 0
    ELSE /\ d.keys = graph.keys
         /\ \A n \in DOMAIN d.val : d.val[n] = <<1, DictLen(graph)>>

\* C8 as amended: a zero or negative count is not rejected; the loop of the
\* estimator runs no iteration and the estimator returns the mapping it
\* initialised; the only failure is the IndexError of random.choice in the
\* stochastic estimator on an empty graph.
C8_NonPositiveRunsNoIteration ==
    (loaded /\ Count <= 0) =>
        /\ x = 0
        /\ error # "InvalidParameterError"
        /\ pc = "done" => IsInitialMapping(ranking)
        /\ pc = "failed" => /\ error = "IndexError"
                            /\ args.method = "stochastic"
                            /\ DictLen(graph) = 0

\* an estimator has returned a non-empty mapping for a negative count
C8_Witness ==
    /\ Count < 0
    /\ pc = "done"
    /\ DictLen(ranking) >= 1

(* ------------------------------- C9 ------------------------------------ *)
\* C9: print_stats reports node_count = the number of distinct identifiers
\* seen as a source or a target, and edge_count = the number of input pairs,
\* duplicates counted each time.
C9_Stats ==
    stats # <<>> => stats = <<Cardinality(NodeSet), Len(datafile)>>

(* ------------------------------- C10 ----------------------------------- *)
\* C10: the mapping stochastic_page_rank returns has an entry for every node
\* of the graph, 0 for a node never visited; with step_count = 0 one node has
\* count 1 and every other node is present with count 0.
C10_EntryForEveryNode ==
    (args.method = "stochastic" /\ args.repeats >= 0 /\ pc = "done") =>
        /\ DOMAIN ranking.val = NodeSet
        /\ args.repeats = 0 =>
              \E n \in NodeSet : /\ ranking.val[n] = 1
                                 /\ \A m \in NodeSet \ {n} : ranking.val[m] = 0

(* ------------------------------- C11 ----------------------------------- *)
\* position of a node in the mapping's iteration order
Pos(n) == CHOOSE k \in 1..Len(ranking.keys) : ranking.keys[k] = n
\* the nodes that rank ahead of n: a higher score, or the same score and an
\* earlier place in the mapping
Ahead(n) ==
    {m \in DOMAIN ranking.val :
        \/ ScoreLess(ranking.val[n], ranking.val[m])
        \/ ranking.val[m] = ranking.val[n] /\ Pos(m) < Pos(n)}

\* C11: for every score mapping and every N >= 0 the reported ranking is the
\* first min(N, number of nodes) entries of the mapping in descending score
\* order, entries of equal score in the order the mapping iterates them.
C11_TopNStable ==
    (pc = "reported" /\ args.number >= 0) =>
        /\ Len(output) = IF args.number < DictLen(ranking) THEN args.number
                         ELSE DictLen(ranking)
        /\ \A p \in 1..Len(output) :
              /\ Has(ranking, output[p][1])
              /\ output[p][2] = ranking.val[output[p][1]]
              /\ Cardinality(Ahead(output[p][1])) = p - 1

\* a mapping of three nodes was cut to two entries of equal score, the later
\* of the two in the mapping's order having a lower-scored node before it
C11_Witness ==
    /\ pc = "reported"
    /\ DictLen(ranking) = 3
    /\ Len(output) = 2
    /\ output[1][2] = output[2][2]
    /\ Pos(output[1][1]) = 2
    /\ Pos(output[2][1]) = 3
====
